---- MODULE Spec2Model ----
(***************************************************************************)
(* The LammpsWeb wrapper (package wrapper.ts) in front of the compiled     *)
(* engine class LAMMPSWeb.  The wrapper is modelled from its source; the   *)
(* engine lives in the compiled module lammps.mjs and is modelled from the *)
(* specification (the Inst* operators).                                    *)
(***************************************************************************)
EXTENDS Integers, Sequences, FiniteSets

VARIABLES
    postStepCallback,  \* globalThis.postStepCallback, the process-wide slot
    cbInvocations,     \* how often the slot's callback has been invoked
    engine,            \* the engine instances built by new Module.LAMMPSWeb()
    handle,            \* the LammpsWeb objects: handle[h] is its private instance
    lastCall,          \* the last wrapper call: method, receiver, argument, result
    firstOptions,      \* the options of the first create() call, <<>> before it
    win,               \* per engine: the step() calls since the last start() call
    syncedAt           \* per engine and kind: timestep at the last sync call

vars == <<postStepCallback, cbInvocations, engine, handle, lastCall,
          firstOptions, win, syncedAt>>

----------------------------------------------------------------------------
(* Bounds *)

MaxEngines == 2      \* create() calls that load a module
MaxTs == 4           \* timesteps an engine is advanced
MaxRun == 3          \* N of a "run N" command
MaxPauseAt == 3      \* invocation on which a user callback asks for a pause
MaxArena == 2        \* distinct arena layouts
MaxSyncTs == 2       \* timesteps advanced between synchronizations
MaxModifiers == 2    \* modifiers defined in an engine at a time

----------------------------------------------------------------------------
(* Callbacks and options *)

Undefined == [id |-> "undefined", pauseAt |-> 0]

\* () => false
DefaultCallback == [id |-> "default", pauseAt |-> 0]

\* A caller's callback: true on invocation pauseAt, false otherwise
\* (pauseAt = 0: false always, as the callback of the example program).
UserCallbacks == {[id |-> "user", pauseAt |-> k] : k \in 0..MaxPauseAt}

\* LammpsModuleOptions; NoOptions is create() without an argument.
NoOptions == [given |-> FALSE, postStepCallback |-> Undefined]
Options ==
    {NoOptions} \cup
    {[given |-> TRUE, postStepCallback |-> c] : c \in {Undefined} \cup UserCallbacks}

Truthy(v) == v.id /= "undefined"

\* The value the callback returns on its i-th invocation.
CallbackReturns(cb, i) == cb.pauseAt /= 0 /\ cb.pauseAt = i

\* options?.postStepCallback
OptionalCallback(options) ==
    IF options.given THEN options.postStepCallback ELSE Undefined

RegisterLastWins(slot, options) ==
    IF Truthy(OptionalCallback(options))
    THEN OptionalCallback(options) ELSE DefaultCallback

RegisterDefaultOnly(slot, options) ==
    IF ~Truthy(slot) THEN DefaultCallback ELSE slot

\* if (!globalObj.postStepCallback) globalObj.postStepCallback = ... || (() => false)
RegisterCallback(slot, options) ==
    IF ~Truthy(slot)
    THEN IF Truthy(OptionalCallback(options))
         THEN OptionalCallback(options) ELSE DefaultCallback
    ELSE slot

----------------------------------------------------------------------------
(* The engine instance (class LAMMPSWeb of the compiled module) *)

Kinds == {"Compute", "Fix", "Variable"}
Names == {"a", "b"}

PointerGetters ==
    <<"getPositionsPointer", "getIdPointer", "getTypePointer",
      "getCellMatrixPointer", "getOrigoPointer", "getBondsPosition1Pointer",
      "getBondsPosition2Pointer", "getBondsDistanceMapPointer">>

BondGetters ==
    {"getBondsPosition1Pointer", "getBondsPosition2Pointer",
     "getBondsDistanceMapPointer"}

Range(s) == {s[i] : i \in DOMAIN s}

\* new Module.LAMMPSWeb(): RunState Idle, counters zero, nothing defined
NewInstance ==
    [state |-> "Idle", timestep |-> 0,
     runCompleted |-> 0, runTotal |-> 0,
     names |-> [k \in Kinds |-> <<>>],
     snapshot |-> [k \in Kinds |-> 0],
     arena |-> 1, bonds |-> FALSE]

\* The values the calls return, in one shape.
Void == [b |-> FALSE, n |-> 0, s |-> <<>>, err |-> ""]
Bool(b) == [Void EXCEPT !.b = b]
Num(n) == [Void EXCEPT !.n = n]
Strings(s) == [Void EXCEPT !.s = s]
Error(err) == [Void EXCEPT !.err = err]

\* What an entry point gives back: the instance after the call, the value
\* returned, the entry points entered, the callback invocations made.
Result(e, ret, entry, inv) == [e |-> e, ret |-> ret, log |-> <<entry>>, inv |-> inv]

InstGetIsRunning(e) == e.state \in {"Running", "Paused"}
InstGetTimesteps(e) == e.timestep
InstGetRunTimesteps(e) == e.runCompleted
InstGetRunTotalTimesteps(e) == e.runTotal

InstStart(e) ==
    IF e.state \in {"Idle", "Cancelled"}
    THEN Result([e EXCEPT !.state = "Running", !.runCompleted = 0, !.runTotal = 0],
                Bool(TRUE), "start", 0)
    ELSE Result(e, Bool(FALSE), "start", 0)

InstStop(e) ==
    IF e.state \in {"Running", "Paused"}
    THEN Result([e EXCEPT !.state = "Idle"], Bool(TRUE), "stop", 0)
    ELSE Result(e, Bool(FALSE), "stop", 0)

InstCancel(e) ==
    IF e.state \in {"Running", "Paused"}
    THEN Result([e EXCEPT !.state = "Cancelled"], Void, "cancel", 0)
    ELSE Result(e, Void, "cancel", 0)

InstSetPaused(e, paused) ==
    IF paused /\ e.state = "Running"
    THEN Result([e EXCEPT !.state = "Paused"], Void, "setPaused", 0)
    ELSE IF ~paused /\ e.state = "Paused"
    THEN Result([e EXCEPT !.state = "Running"], Void, "setPaused", 0)
    ELSE Result(e, Void, "setPaused", 0)

\* One timestep of the engine, then the cooperative interruption point: the
\* c-th invocation of the callback; true asks for a pause after this step.
Timestep(e, cb, c) ==
    LET e1 == [e EXCEPT !.timestep = @ + 1, !.runCompleted = @ + 1]
        pause == CallbackReturns(cb, c)
    IN [e |-> IF pause /\ e1.state = "Running"
              THEN [e1 EXCEPT !.state = "Paused"] ELSE e1,
        pause |-> pause]

InstStep(e, cb, c) ==
    IF e.state \in {"Running", "Paused"}
    THEN Result(Timestep(e, cb, c + 1).e, Void, "step", 1)
    ELSE Result(e, Void, "step", 0)

\* The engine's own advance loop of "run N": left timesteps to go, c callback
\* invocations made so far.  Gives the instance and the invocations made.
RECURSIVE RunLoop(_, _, _, _)
RunLoop(e, cb, c, left) ==
    IF left = 0 THEN [e |-> e, inv |-> 0]
    ELSE LET t == Timestep(e, cb, c + 1)
         IN IF t.pause THEN [e |-> t.e, inv |-> 1]
            ELSE LET r == RunLoop(t.e, cb, c + 1, left - 1)
                 IN [e |-> r.e, inv |-> r.inv + 1]

\* The commands of the engine's interpreter that the model distinguishes.
RunCommands == {[cmd |-> "run", kind |-> "-", name |-> "-", n |-> n, arena |-> 0]
                  : n \in 1..MaxRun}
ModifierCommands ==
    {[cmd |-> c, kind |-> k, name |-> nm, n |-> 0, arena |-> 0]
       : c \in {"define", "remove"}, k \in Kinds, nm \in Names}
\* A set-up command (create_atoms, ...) after which the arena has layout arena.
SetupCommands == {[cmd |-> "setup", kind |-> "-", name |-> "-", n |-> 0, arena |-> a]
                    : a \in 1..MaxArena}
Commands == RunCommands \cup ModifierCommands \cup SetupCommands

Remove(s, x) == SelectSeq(s, LAMBDA y : y /= x)

InstCommand(e, command, cb, c, entry) ==
    CASE command.cmd = "run" ->
           LET r == RunLoop([e EXCEPT !.runCompleted = 0, !.runTotal = command.n],
                            cb, c, command.n)
           IN Result(r.e, Void, entry, r.inv)
      [] command.cmd = "define" ->
           IF command.name \in Range(e.names[command.kind])
           THEN Result(e, Void, entry, 0)
           ELSE Result([e EXCEPT !.names[command.kind] = Append(@, command.name)],
                       Void, entry, 0)
      [] command.cmd = "remove" ->
           Result([e EXCEPT !.names[command.kind] = Remove(@, command.name)],
                  Void, entry, 0)
      [] OTHER ->
           Result([e EXCEPT !.arena = command.arena], Void, entry, 0)

InstRunCommand(e, command, cb, c) == InstCommand(e, command, cb, c, "runCommand")

\* runFile: the commands of the file, here a file of one command
InstRunFile(e, command, cb, c) == InstCommand(e, command, cb, c, "runFile")

----------------------------------------------------------------------------
(* The modifier registry and the arena of the engine instance *)

KindNo == [k \in Kinds |-> CASE k = "Compute" -> 1 [] k = "Fix" -> 2 [] OTHER -> 3]
NameNo == [nm \in Names |-> IF nm = "a" THEN 1 ELSE 2]

\* The value the engine holds for modifier (kind, name) once timestep t is
\* complete: a different number for every kind, name and timestep.
ModifierValue(kind, name, t) == 100 * KindNo[kind] + 10 * NameNo[name] + t

SyncEntry == [k \in Kinds |-> CASE k = "Compute" -> "syncComputes"
                                [] k = "Fix" -> "syncFixes"
                                [] OTHER -> "syncVariables"]
ResolveEntry == [k \in Kinds |-> CASE k = "Compute" -> "getCompute"
                                   [] k = "Fix" -> "getFix"
                                   [] OTHER -> "getVariable"]
NamesEntry == [k \in Kinds |-> CASE k = "Compute" -> "getComputeNames"
                                 [] k = "Fix" -> "getFixNames"
                                 [] OTHER -> "getVariableNames"]

\* synchronize(kind): push the current values of the kind into the snapshot
InstSync(e, kind) ==
    Result([e EXCEPT !.snapshot[kind] = e.timestep], Void, SyncEntry[kind], 0)

\* listNames(kind): registration order
InstGetNames(e, kind) == Result(e, Strings(e.names[kind]), NamesEntry[kind], 0)

\* resolve(kind, name): a handle <<kind, name>>, or NotFoundError
InstResolve(e, kind, name) ==
    IF name \in Range(e.names[kind])
    THEN Result(e, Strings(<<kind, name>>), ResolveEntry[kind], 0)
    ELSE Result(e, Error("NotFoundError"), ResolveEntry[kind], 0)

\* ModifierHandle.read() of a scalar: the value in the kind's snapshot
ModifierRead(e, kind, name) ==
    Result(e, Num(ModifierValue(kind, name, e.snapshot[kind])), "getScalarValue", 0)

GetterNo(g) == CHOOSE i \in DOMAIN PointerGetters : PointerGetters[i] = g

\* The offset of an array in the arena as laid out now; 0 for the bond arrays
\* before any bonds were computed.
PointerValue(e, g) ==
    IF g \in BondGetters /\ ~e.bonds THEN 0 ELSE 16 * e.arena + GetterNo(g)

InstGetPointer(e, g) == Result(e, Num(PointerValue(e, g)), g, 0)

\* computeBonds / computeParticles may relocate the arena (to layout arena)
InstComputeBonds(e, arena) ==
    Result([e EXCEPT !.bonds = TRUE, !.arena = arena], Num(1), "computeBonds", 0)
InstComputeParticles(e, arena) ==
    Result([e EXCEPT !.arena = arena], Num(1), "computeParticles", 0)

----------------------------------------------------------------------------
(* The wrapper class LammpsWeb *)

NoArg == [cmd |-> "-", kind |-> "-", name |-> "-", n |-> 0, arena |-> 0]
PausedArg(paused) == [NoArg EXCEPT !.cmd = IF paused THEN "true" ELSE "false"]
NameArg(kind, name) == [NoArg EXCEPT !.kind = kind, !.name = name]

NoCall ==
    [op |-> "-", h |-> 0, arg |-> NoArg, options |-> NoOptions, ret |-> Void,
     log |-> <<>>, c0 |-> 0]

NoWindow == [active |-> FALSE, n |-> 0, dts |-> 0, dcb |-> 0]

Init ==
    /\ postStepCallback = Undefined
    /\ cbInvocations = 0
    /\ engine = <<>>
    /\ handle = <<>>
    /\ lastCall = NoCall
    /\ firstOptions = <<>>
    /\ win = <<>>
    /\ syncedAt = <<>>

\* this.instance
Eng(h) == engine[handle[h]]

\* The step() calls made on an engine since the caller's last start() call,
\* what they added to currentTimestep and the callback invocations they made.
WinAfter(w, op, e, r) ==
    CASE op = "start" -> [NoWindow EXCEPT !.active = TRUE]
      [] op \in {"stop", "cancel"} -> NoWindow
      [] op = "step" /\ w.active ->
           [w EXCEPT !.n = @ + 1, !.dts = @ + (r.e.timestep - e.timestep),
                     !.dcb = @ + r.inv]
      [] OTHER -> w

\* The engine's timestep when the caller last called the kind's sync method.
SyncedAfter(s, op, e) ==
    IF \E k \in Kinds : op = SyncEntry[k]
    THEN [s EXCEPT ![CHOOSE k \in Kinds : op = SyncEntry[k]] = e.timestep]
    ELSE s

\* A method of the wrapper that makes the engine call with result r and
\* returns what it returned.
Call(h, op, arg, r) ==
    /\ engine' = [engine EXCEPT ![handle[h]] = r.e]
    /\ cbInvocations' = cbInvocations + r.inv
    /\ lastCall' = [op |-> op, h |-> h, arg |-> arg, options |-> NoOptions,
                    ret |-> r.ret, log |-> r.log, c0 |-> cbInvocations]
    /\ win' = [win EXCEPT ![handle[h]] = WinAfter(@, op, Eng(h), r)]
    /\ syncedAt' = [syncedAt EXCEPT ![handle[h]] = SyncedAfter(@, op, Eng(h))]
    /\ UNCHANGED <<postStepCallback, handle, firstOptions>>

WrapFirstInstance(engines) == 1

\* new LammpsWeb(instance): the instance create() has just constructed
WrapInstance(engines) == Len(engines)

\* static async create(options?); loads: whether createModule() resolves
create(options, loads) ==
    /\ postStepCallback' = RegisterCallback(postStepCallback, options)
    /\ firstOptions' = IF firstOptions = <<>> THEN <<options>> ELSE firstOptions
    /\ IF loads
       THEN /\ engine' = Append(engine, InstStart(NewInstance).e)
            /\ handle' = Append(handle, WrapInstance(engine'))
            /\ win' = Append(win, NoWindow)
            /\ syncedAt' = Append(syncedAt, [k \in Kinds |-> 0])
            /\ lastCall' = [NoCall EXCEPT !.op = "create", !.h = Len(handle'),
                                          !.options = options,
                                          !.log = <<"start">>]
       ELSE /\ UNCHANGED <<engine, handle, win, syncedAt>>
            /\ lastCall' = [NoCall EXCEPT !.op = "create", !.options = options,
                                          !.ret = Error("module did not load")]
    /\ UNCHANGED cbInvocations

getIsRunning(h) == InstGetIsRunning(Eng(h))
getTimesteps(h) == InstGetTimesteps(Eng(h))
getRunTimesteps(h) == InstGetRunTimesteps(Eng(h))
getRunTotalTimesteps(h) == InstGetRunTotalTimesteps(Eng(h))

startReturnsTrue(h) ==
    Call(h, "start", NoArg, [InstStart(Eng(h)) EXCEPT !.ret = Bool(TRUE)])

start(h) == Call(h, "start", NoArg, InstStart(Eng(h)))

stopCallsCancel(h) == Call(h, "stop", NoArg, InstCancel(Eng(h)))

stop(h) == Call(h, "stop", NoArg, InstStop(Eng(h)))

cancel(h) == Call(h, "cancel", NoArg, InstCancel(Eng(h)))

setPaused(h, paused) ==
    Call(h, "setPaused", PausedArg(paused), InstSetPaused(Eng(h), paused))

stepDropped(h) ==
    /\ Eng(h).timestep < MaxTs
    /\ Call(h, "step", NoArg, Result(Eng(h), Void, "step", 0))

step(h) ==
    /\ Eng(h).timestep < MaxTs
    /\ Call(h, "step", NoArg, InstStep(Eng(h), postStepCallback, cbInvocations))

runCommand(h, command) ==
    /\ Eng(h).timestep + command.n <= MaxTs
    /\ Call(h, "runCommand", command,
            InstRunCommand(Eng(h), command, postStepCallback, cbInvocations))

runFile(h, command) ==
    /\ Eng(h).timestep + command.n <= MaxTs
    /\ Call(h, "runFile", command,
            InstRunFile(Eng(h), command, postStepCallback, cbInvocations))

getCompute(h, name) ==
    Call(h, "getCompute", NameArg("Compute", name), InstResolve(Eng(h), "Compute", name))

getFixCallsGetCompute(h, name) ==
    Call(h, "getFix", NameArg("Fix", name), InstResolve(Eng(h), "Compute", name))

getFix(h, name) ==
    Call(h, "getFix", NameArg("Fix", name), InstResolve(Eng(h), "Fix", name))

getVariable(h, name) ==
    Call(h, "getVariable", NameArg("Variable", name),
         InstResolve(Eng(h), "Variable", name))

getComputeNames(h) == Call(h, "getComputeNames", NoArg, InstGetNames(Eng(h), "Compute"))
getFixNames(h) == Call(h, "getFixNames", NoArg, InstGetNames(Eng(h), "Fix"))
getVariableNames(h) ==
    Call(h, "getVariableNames", NoArg, InstGetNames(Eng(h), "Variable"))

syncComputes(h) == Call(h, "syncComputes", NoArg, InstSync(Eng(h), "Compute"))

syncFixesCallsSyncComputes(h) ==
    Call(h, "syncFixes", NoArg, InstSync(Eng(h), "Compute"))

syncFixes(h) == Call(h, "syncFixes", NoArg, InstSync(Eng(h), "Fix"))
syncVariables(h) == Call(h, "syncVariables", NoArg, InstSync(Eng(h), "Variable"))

\* getScalarValue() of the LMPModifier that get<Kind>(name) returned
getScalarValue(h, kind, name) ==
    /\ name \in Range(Eng(h).names[kind])
    /\ Call(h, "getScalarValue", NameArg(kind, name), ModifierRead(Eng(h), kind, name))

getPositionsPointer(h) ==
    Call(h, "getPositionsPointer", NoArg, InstGetPointer(Eng(h), "getPositionsPointer"))

getIdPointerCallsGetTypePointer(h) ==
    Call(h, "getIdPointer", NoArg, InstGetPointer(Eng(h), "getTypePointer"))

getIdPointer(h) ==
    Call(h, "getIdPointer", NoArg, InstGetPointer(Eng(h), "getIdPointer"))

getTypePointer(h) ==
    Call(h, "getTypePointer", NoArg, InstGetPointer(Eng(h), "getTypePointer"))

getCellMatrixPointer(h) ==
    Call(h, "getCellMatrixPointer", NoArg,
         InstGetPointer(Eng(h), "getCellMatrixPointer"))

getOrigoPointer(h) ==
    Call(h, "getOrigoPointer", NoArg, InstGetPointer(Eng(h), "getOrigoPointer"))

getBondsPosition1Pointer(h) ==
    Call(h, "getBondsPosition1Pointer", NoArg,
         InstGetPointer(Eng(h), "getBondsPosition1Pointer"))

getBondsPosition2Pointer(h) ==
    Call(h, "getBondsPosition2Pointer", NoArg,
         InstGetPointer(Eng(h), "getBondsPosition2Pointer"))

getBondsDistanceMapPointer(h) ==
    Call(h, "getBondsDistanceMapPointer", NoArg,
         InstGetPointer(Eng(h), "getBondsDistanceMapPointer"))

\* arena: the layout the engine leaves the arena in
computeBonds(h, arena) ==
    Call(h, "computeBonds", NoArg, InstComputeBonds(Eng(h), arena))

computeParticles(h, arena) ==
    Call(h, "computeParticles", NoArg, InstComputeParticles(Eng(h), arena))

----------------------------------------------------------------------------
(* Specifications *)

Handles == DOMAIN handle

\* The number of modifiers an engine holds.
Defined(e) == Len(e.names["Compute"]) + Len(e.names["Fix"]) + Len(e.names["Variable"])

\* Creation and the run-state machine, several engines in one process.
NextCreate ==
    \/ \E options \in Options, loads \in BOOLEAN :
         Len(engine) < MaxEngines /\ create(options, loads)
    \/ \E h \in Handles : start(h)
    \/ \E h \in Handles : stop(h)
    \/ \E h \in Handles : cancel(h)
    \/ \E h \in Handles, paused \in BOOLEAN : setPaused(h, paused)

SpecCreate == Init /\ [][NextCreate]_vars

\* The run controller of the engine of one handle: manual steps and
\* autonomous runs.
NextRun ==
    \/ \E options \in Options, loads \in BOOLEAN :
         Handles = {} /\ create(options, loads)
    \/ \E h \in Handles : start(h)
    \/ \E h \in Handles : stop(h)
    \/ \E h \in Handles : cancel(h)
    \/ \E h \in Handles, paused \in BOOLEAN : setPaused(h, paused)
    \/ \E h \in Handles : step(h)
    \/ \E h \in Handles, command \in RunCommands : runCommand(h, command)
    \/ \E h \in Handles, command \in RunCommands : runFile(h, command)

SpecRun == Init /\ [][NextRun]_vars

\* The modifier registry of the engine of one handle.
NextModifiers ==
    \/ \E loads \in BOOLEAN : Handles = {} /\ create(NoOptions, loads)
    \/ \E h \in Handles : Eng(h).timestep < MaxSyncTs /\ step(h)
    \/ \E h \in Handles, command \in ModifierCommands :
         /\ command.cmd = "define" => Defined(Eng(h)) < MaxModifiers
         /\ runCommand(h, command)
    \/ \E h \in Handles, name \in Names : getCompute(h, name)
    \/ \E h \in Handles, name \in Names : getFix(h, name)
    \/ \E h \in Handles, name \in Names : getVariable(h, name)
    \/ \E h \in Handles : getComputeNames(h)
    \/ \E h \in Handles : getFixNames(h)
    \/ \E h \in Handles : getVariableNames(h)
    \/ \E h \in Handles : syncComputes(h)
    \/ \E h \in Handles : syncFixes(h)
    \/ \E h \in Handles : syncVariables(h)
    \/ \E h \in Handles, kind \in Kinds, name \in Names : getScalarValue(h, kind, name)

SpecModifiers == Init /\ [][NextModifiers]_vars

\* The arena pointers.
NextPointers ==
    \/ \E loads \in BOOLEAN :
         Len(engine) < MaxEngines /\ create(NoOptions, loads)
    \/ \E h \in Handles, command \in SetupCommands : runCommand(h, command)
    \/ \E h \in Handles, command \in SetupCommands : runFile(h, command)
    \/ \E h \in Handles, arena \in 1..MaxArena : computeBonds(h, arena)
    \/ \E h \in Handles, arena \in 1..MaxArena : computeParticles(h, arena)
    \/ \E h \in Handles : getPositionsPointer(h)
    \/ \E h \in Handles : getIdPointer(h)
    \/ \E h \in Handles : getTypePointer(h)
    \/ \E h \in Handles : getCellMatrixPointer(h)
    \/ \E h \in Handles : getOrigoPointer(h)
    \/ \E h \in Handles : getBondsPosition1Pointer(h)
    \/ \E h \in Handles : getBondsPosition2Pointer(h)
    \/ \E h \in Handles : getBondsDistanceMapPointer(h)

SpecPointers == Init /\ [][NextPointers]_vars

----------------------------------------------------------------------------
(* Creation: the callback slot and the engine instances *)

\* What the first create() call registers: its callback, or the default.
FirstRegistration ==
    IF firstOptions = <<>> THEN Undefined
    ELSE IF Truthy(OptionalCallback(firstOptions[1]))
         THEN firstOptions[1].postStepCallback
         ELSE DefaultCallback

\* C1: after any sequence of create() calls the slot globalThis.postStepCallback
\* holds what the first call registered, its own callback or else a default
\* that returns false on every invocation; later calls leave the slot alone.
C1_FirstRegistrationWins ==
    /\ postStepCallback = FirstRegistration
    /\ (firstOptions /= <<>> /\ ~Truthy(OptionalCallback(firstOptions[1])))
         => \A i \in 1..(MaxTs + MaxRun) : ~CallbackReturns(postStepCallback, i)

\* A later create() passed a callback of its own and the slot still holds the
\* default that the first create(), called without one, registered.
C1_Witness ==
    /\ lastCall.op = "create"
    /\ Len(handle) >= 2
    /\ Truthy(OptionalCallback(lastCall.options))
    /\ ~Truthy(OptionalCallback(firstOptions[1]))
    /\ postStepCallback = DefaultCallback

\* C2 as stated: at most one handle is live; once a create() has succeeded
\* every further create() fails.
C2_AtMostOneHandle == Len(handle) <= 1

\* C2 as amended: every create() whose module loads constructs a new engine
\* instance and returns a new handle onto it, whether or not a handle exists
\* already; no two handles wrap the same instance.
C2_FreshInstancePerHandle ==
    /\ Len(handle) = Len(engine)
    /\ \A i, j \in DOMAIN handle : i /= j => handle[i] /= handle[j]
    /\ (lastCall.op = "create" /\ lastCall.ret.err = "")
         => lastCall.h = Len(handle) /\ handle[lastCall.h] = Len(engine)

\* A second create() has succeeded while the first handle is live.
C2_Witness ==
    /\ lastCall.op = "create" /\ lastCall.ret.err = ""
    /\ Len(handle) = 2 /\ handle[1] /= handle[2]

\* C9: immediately after create() returns the RunState is Idle and
\* getIsRunning() is false.
C9_IdleAfterCreate ==
    (lastCall.op = "create" /\ lastCall.ret.err = "")
      => /\ Eng(lastCall.h).state = "Idle"
         /\ ~getIsRunning(lastCall.h)

----------------------------------------------------------------------------
(* The run controller *)

\* The transition table: the RunState after call op with argument arg in state.
TableNext(state, op, arg) ==
    CASE op = "start" /\ state \in {"Idle", "Cancelled"} -> "Running"
      [] op = "setPaused" /\ arg.cmd = "true" /\ state = "Running" -> "Paused"
      [] op = "setPaused" /\ arg.cmd = "false" /\ state = "Paused" -> "Running"
      [] op = "stop" /\ state \in {"Running", "Paused"} -> "Idle"
      [] op = "cancel" /\ state \in {"Running", "Paused"} -> "Cancelled"
      [] OTHER -> state

\* C3: the RunState after every start(), stop(), cancel() and setPaused() call
\* is the one the transition table gives for the state before the call, and
\* is no other: the state is a function of the call sequence.
C3_TransitionTable ==
    [][lastCall'.op \in {"start", "stop", "cancel", "setPaused"}
         => engine'[handle'[lastCall'.h]].state
              = TableNext(Eng(lastCall'.h).state, lastCall'.op, lastCall'.arg)]_vars

\* start() has taken an engine that had advanced, and was then stopped or
\* cancelled, back to Running.
C3_Witness ==
    /\ lastCall.op = "start" /\ lastCall.ret.b
    /\ Eng(lastCall.h).state = "Running"
    /\ Eng(lastCall.h).timestep > 0

\* The fields of StepCounters together with the RunState.
Controller(e) == <<e.state, e.timestep, e.runCompleted, e.runTotal>>

\* C4: a run-control call made where it is not valid raises no error and
\* changes nothing: start() while Running returns false, step() while Idle
\* executes no timestep and cancel() while Idle is a no-op, each leaving the
\* RunState and the StepCounters as they were.
C4_InvalidCallChangesNothing ==
    [][LET call == lastCall'
       IN call.op \in {"start", "step", "cancel"} =>
            LET before == Eng(call.h)
                after == engine'[handle'[call.h]]
                invalid == \/ call.op = "start" /\ before.state = "Running"
                           \/ call.op = "step" /\ before.state = "Idle"
                           \/ call.op = "cancel" /\ before.state = "Idle"
            IN invalid => /\ call.ret.err = ""
                          /\ Controller(after) = Controller(before)
                          /\ cbInvocations' = cbInvocations
                          /\ call.op = "start" => call.ret = Bool(FALSE)]_vars

\* start() was called on a Running engine and returned false.
C4_Witness ==
    /\ lastCall.op = "start" /\ lastCall.ret = Bool(FALSE)
    /\ Eng(lastCall.h).state = "Running"

\* C5: the N step() calls made since a start() call, with no stop() or
\* cancel() in between, have raised currentTimestep by N and invoked the
\* callback N times; getIsRunning() is true from start() on and false after
\* stop().
C5_StepsAdvanceByOne ==
    /\ \A i \in DOMAIN handle :
         win[handle[i]].active =>
           /\ win[handle[i]].dts = win[handle[i]].n
           /\ win[handle[i]].dcb = win[handle[i]].n
           /\ getIsRunning(i)
    /\ lastCall.op = "stop" => ~getIsRunning(lastCall.h)

\* Three step() calls in a row since start(); the callback asked for a pause
\* on the way.
C5_Witness ==
    /\ lastCall.op = "step"
    /\ win[handle[lastCall.h]].active
    /\ win[handle[lastCall.h]].n = 3
    /\ Eng(lastCall.h).state = "Paused"

\* The invocations, counted from the start of the last run command, on which
\* the callback the first create() registered returns true.
PauseRequests ==
    {i \in 1..lastCall.arg.n : CallbackReturns(FirstRegistration, lastCall.c0 + i)}

\* C6: a command "run N" invokes the callback once per timestep; when the
\* callback first returns true on invocation k < N the run pauses after a
\* timestep j with k <= j < N and getRunTimesteps() is below N when control
\* returns; when it returns false throughout, all N timesteps complete.
C6_RunPausesOnRequest ==
    (lastCall.op \in {"runCommand", "runFile"} /\ lastCall.arg.cmd = "run") =>
      LET N == lastCall.arg.n
          j == getRunTimesteps(lastCall.h)
      IN /\ cbInvocations - lastCall.c0 = j
         /\ PauseRequests = {} => j = N
         /\ \A k \in PauseRequests :
              (k < N /\ \A k2 \in PauseRequests : k <= k2)
                => /\ k <= j /\ j < N
                   /\ Eng(lastCall.h).state /= "Running"

\* A run of 3 timesteps paused after the second, on the callback's request.
C6_Witness ==
    /\ lastCall.op = "runCommand" /\ lastCall.arg.cmd = "run"
    /\ lastCall.arg.n = 3
    /\ PauseRequests = {2}
    /\ getRunTimesteps(lastCall.h) = 2
    /\ Eng(lastCall.h).state = "Paused"

\* A run of 3 timesteps under a callback that never asks for a pause.
C6_WitnessComplete ==
    /\ lastCall.op = "runCommand" /\ lastCall.arg.cmd = "run"
    /\ lastCall.arg.n = 3
    /\ PauseRequests = {}
    /\ getRunTimesteps(lastCall.h) = 3

----------------------------------------------------------------------------
(* The modifier registry *)

\* listNames(kind) of the engine behind handle h, now.
ListNames(h, kind) == InstGetNames(Eng(h), kind).ret.s

\* C7: a read of a kind-K modifier returns the engine's value as of the most
\* recent synchronize(K) call, raising nothing: right after synchronize(K) a
\* read gives the value at the last completed step, and after further steps
\* with no synchronize(K) it still gives the value of that earlier snapshot.
C7_ReadGivesLastSynchronized ==
    /\ lastCall.op = "getScalarValue" =>
         /\ lastCall.ret.err = ""
         /\ lastCall.ret.n =
              ModifierValue(lastCall.arg.kind, lastCall.arg.name,
                            syncedAt[handle[lastCall.h]][lastCall.arg.kind])
    /\ \A kind \in Kinds :
         lastCall.op = SyncEntry[kind] =>
           \A name \in Range(ListNames(lastCall.h, kind)) :
             ModifierRead(Eng(lastCall.h), kind, name).ret.n
               = ModifierValue(kind, name, getTimesteps(lastCall.h))

\* A fix was read a step after the last syncFixes(), which itself came after
\* a step: the read gave the value of that snapshot, not the current one.
C7_Witness ==
    /\ lastCall.op = "getScalarValue" /\ lastCall.arg.kind = "Fix"
    /\ syncedAt[handle[lastCall.h]]["Fix"] = 1
    /\ syncedAt[handle[lastCall.h]]["Compute"] = 0
    /\ getTimesteps(lastCall.h) = 2
    /\ lastCall.ret.n = ModifierValue("Fix", lastCall.arg.name, 1)

\* C8: getCompute / getFix / getVariable of a name gives a handle exactly
\* when the name is in the kind's current list of names; a name that was
\* removed, or is defined under another kind only, gives NotFoundError.
C8_ResolveIffListed ==
    \A kind \in Kinds :
      lastCall.op = ResolveEntry[kind] =>
        IF lastCall.arg.name \in Range(ListNames(lastCall.h, kind))
        THEN lastCall.ret = Strings(<<kind, lastCall.arg.name>>)
        ELSE lastCall.ret = Error("NotFoundError")

\* getFix of a name that is a compute and not a fix failed with NotFoundError.
C8_Witness ==
    /\ lastCall.op = "getFix"
    /\ lastCall.arg.name \in Range(ListNames(lastCall.h, "Compute"))
    /\ lastCall.arg.name \notin Range(ListNames(lastCall.h, "Fix"))
    /\ lastCall.ret = Error("NotFoundError")

----------------------------------------------------------------------------
(* The arena pointers *)

\* The methods of the wrapper that forward to the engine.
Forwarders ==
    Range(PointerGetters) \cup
    {"runCommand", "runFile", "computeBonds", "computeParticles"}

\* C10: the wrapper keeps nothing but its engine instance: every getter
\* makes exactly one call, to the engine entry point of its own name, and
\* returns the engine's result as of that moment, so a getter called after an
\* arena-mutating call gives the pointer of the arena as it is then.
C10_GettersForward ==
    /\ lastCall.op \in Forwarders => lastCall.log = <<lastCall.op>>
    /\ lastCall.op \in Range(PointerGetters) =>
         lastCall.ret = Num(PointerValue(Eng(lastCall.h), lastCall.op))

\* getIdPointer() was called after the arena had moved and bonds had been
\* computed, and returned the pointer of the new layout.
C10_Witness ==
    /\ lastCall.op = "getIdPointer"
    /\ Eng(lastCall.h).arena = 2 /\ Eng(lastCall.h).bonds
    /\ lastCall.ret.n = 16 * 2 + 2

====
